---- MODULE Spec2Model ----
(***************************************************************************)
(* Model of tools/licenses.py: the aggregation of the Goma client license  *)
(* and the licenses of the third_party directories into one output file.   *)
(*                                                                         *)
(* A Python str is a sequence of one-character strings, so that len(),     *)
(* str.startswith(), '=' * n, string concatenation and the code-point      *)
(* order used by sorted() are computed and not assumed.                    *)
(***************************************************************************)
EXTENDS Integers, Sequences, FiniteSets, TLC

VARIABLES
  fs,           \* the input file system: [goma_license, third_party_dir], never written
  output_file,  \* the node at args.output_file
  run,          \* number of the current run of main()
  pc,           \* position of the current run: start, scan, loop, done, failed
  result,       \* main's local `result`
  todo,         \* the entries the for loop of main has not visited yet
  err,          \* the exception that ended the run, NoErr when none
  reads,        \* paths whose contents ReadFile has returned in this run
  resolved,     \* library names FindLicense has been called with in this run
  added,        \* the (name, contents) arguments of the AddLicenseFile calls of this run
  last,         \* the latest FindLicense call of this run and its outcome
  out_before,   \* output_file when the current run started
  history       \* how the earlier runs ended and what output_file was then

vars == <<fs, output_file, run, pc, result, todo, err, reads, resolved, added,
          last, out_before, history>>

\* Number of runs of main() over the same file system.
MaxRuns == 2

-----------------------------------------------------------------------------
(* Strings                                                                 *)

\* The characters of the names and texts handled here, by code-point range.
Digits == <<"0", "1", "2", "3", "4", "5", "6", "7", "8", "9">>
Upper ==
  <<"A", "B", "C", "D", "E", "F", "G", "H", "I", "J", "K", "L", "M",
    "N", "O", "P", "Q", "R", "S", "T", "U", "V", "W", "X", "Y", "Z">>
Lower ==
  <<"a", "b", "c", "d", "e", "f", "g", "h", "i", "j", "k", "l", "m",
    "n", "o", "p", "q", "r", "s", "t", "u", "v", "w", "x", "y", "z">>

IndexOf(seq, c) == CHOOSE i \in 1..Len(seq) : seq[i] = c
Has(seq, c) == \E i \in 1..Len(seq) : seq[i] = c

\* The code point of a character.
ord(c) ==
  IF Has(Lower, c) THEN 96 + IndexOf(Lower, c)
  ELSE IF Has(Upper, c) THEN 64 + IndexOf(Upper, c)
  ELSE IF Has(Digits, c) THEN 47 + IndexOf(Digits, c)
  ELSE CASE c = "\n" -> 10
         [] c = "\r" -> 13
         [] c = " " -> 32
         [] c = "-" -> 45
         [] c = "." -> 46
         [] c = "=" -> 61
         [] c = "_" -> 95

\* ord of a letter folded to lower case (the order a key=str.lower sort uses).
ord_lower(c) ==
  IF ord(c) >= 65 /\ ord(c) <= 90 THEN ord(c) + 32 ELSE ord(c)

\* Python's a < b on str: the first differing code point decides, a proper
\* prefix is smaller.
RECURSIVE str_lt(_, _)
str_lt(a, b) ==
  IF b = <<>> THEN FALSE
  ELSE IF a = <<>> THEN TRUE
  ELSE IF ord(Head(a)) # ord(Head(b)) THEN ord(Head(a)) < ord(Head(b))
  ELSE str_lt(Tail(a), Tail(b))

RECURSIVE str_lt_lower(_, _)
str_lt_lower(a, b) ==
  IF b = <<>> THEN FALSE
  ELSE IF a = <<>> THEN TRUE
  ELSE IF ord_lower(Head(a)) # ord_lower(Head(b))
       THEN ord_lower(Head(a)) < ord_lower(Head(b))
  ELSE str_lt_lower(Tail(a), Tail(b))

\* str.startswith
startswith(s, prefix) ==
  Len(s) >= Len(prefix) /\ SubSeq(s, 1, Len(prefix)) = prefix

\* c * n for a one-character string c
repeat(c, n) == [i \in 1..n |-> c]

NL == "\n"
CR == "\r"

\* What reading in text mode (open(path), newline=None) makes of the bytes of
\* a file: every "\r\n" and every other "\r" becomes "\n".
RECURSIVE universal_newlines(_)
universal_newlines(data) ==
  IF data = <<>> THEN <<>>
  ELSE IF Head(data) = CR
  THEN IF Len(data) >= 2 /\ data[2] = NL
       THEN <<NL>> \o universal_newlines(SubSeq(data, 3, Len(data)))
       ELSE <<NL>> \o universal_newlines(Tail(data))
  ELSE <<Head(data)>> \o universal_newlines(Tail(data))

-----------------------------------------------------------------------------
(* The constants of licenses.py                                            *)

s_LICENSE     == <<"L","I","C","E","N","S","E">>
s_LICENSE_md  == <<"L","I","C","E","N","S","E",".","m","d">>
s_LICENSE_rst == <<"L","I","C","E","N","S","E",".","r","s","t">>
s_COPYING     == <<"C","O","P","Y","I","N","G">>
s_COPYING_txt == <<"C","O","P","Y","I","N","G",".","t","x","t">>
s_lss         == <<"l","s","s">>
s_zlib        == <<"z","l","i","b">>
s_LICENSE_lss == <<"L","I","C","E","N","S","E",".","l","s","s">>
s_LICENSE_zlib == <<"L","I","C","E","N","S","E",".","z","l","i","b">>
s_ninja       == <<"n","i","n","j","a">>
s_gclient     == <<"_","g","c","l","i","e","n","t","_">>
s_Goma_Client == <<"G","o","m","a"," ","C","l","i","e","n","t">>

PRUNE_DIRS ==
  { <<"c","h","r","o","m","i","u","m","_","b","u","i","l","d">>,
    <<"c","o","n","f","i","g">>,
    <<"l","l","v","m","-","b","u","i","l","d">>,
    s_ninja }

SPECIAL_CASES ==
  (s_lss :> [path |-> s_LICENSE_lss]) @@ (s_zlib :> [path |-> s_LICENSE_zlib])

-----------------------------------------------------------------------------
(* The file system                                                         *)

\* A node is absent, a regular file with its contents, or a directory with
\* its entries (a function from names to nodes).
Absent    == [kind |-> "absent", data |-> <<>>, entries |-> <<>>]
File(t)   == [kind |-> "file",   data |-> t,    entries |-> <<>>]
Dir(e)    == [kind |-> "dir",    data |-> <<>>, entries |-> e]

\* The node at the relative path rel (a sequence of names) below node.
RECURSIVE Lookup(_, _)
Lookup(node, rel) ==
  IF rel = <<>> THEN node
  ELSE IF node.kind = "dir" /\ Head(rel) \in DOMAIN node.entries
       THEN Lookup(node.entries[Head(rel)], Tail(rel))
  ELSE Absent

\* A path is an argument of main (base) and the names joined to it (rel).
Path(base, rel) == [base |-> base, rel |-> rel]
NodeAt(p) == Lookup(fs[p.base], p.rel)

\* Some proper prefix of the relative path rel below node is a regular file.
RECURSIVE ThroughFile(_, _)
ThroughFile(node, rel) ==
  /\ rel # <<>>
  /\ \/ node.kind = "file"
     \/ /\ node.kind = "dir"
        /\ Head(rel) \in DOMAIN node.entries
        /\ ThroughFile(node.entries[Head(rel)], Tail(rel))

NoPath == Path("", <<>>)
NoErr  == [exc |-> "", dep |-> <<>>, path |-> NoPath]

-----------------------------------------------------------------------------
(* The functions of licenses.py                                            *)

\* What a call gives back: a str (kind "value", text), None (kind "none") or
\* an exception (kind "raise", exc); path is the file opened, walked tells
\* whether os.walk was started.
Outcome(kind, text, exc, path, walked) ==
  [kind |-> kind, text |-> text, exc |-> exc, path |-> path, walked |-> walked]

\* os.path.exists: anything at the path.  (The mutant is os.path.isfile.)
exists_isfile(p) == NodeAt(p).kind = "file"
exists(p) == NodeAt(p).kind # "absent"

\* os.path.isdir
isdir(p) == NodeAt(p).kind = "dir"

\* ReadFile: open(path) raises on a missing path, on a path that runs through
\* a regular file and on a directory; the file is opened in text mode, so
\* f.read() returns the contents with the newlines translated.
ReadFile(p) ==
  CASE NodeAt(p).kind = "file" ->
         Outcome("value", universal_newlines(NodeAt(p).data), "", p, FALSE)
    [] NodeAt(p).kind = "absent" /\ ThroughFile(fs[p.base], p.rel) ->
         Outcome("raise", <<>>, "NotADirectoryError", p, FALSE)
    [] NodeAt(p).kind = "absent" /\ ~ThroughFile(fs[p.base], p.rel) ->
         Outcome("raise", <<>>, "FileNotFoundError", p, FALSE)
    [] NodeAt(p).kind = "dir" ->
         Outcome("raise", <<>>, "IsADirectoryError", p, FALSE)

IsLicenseFile(name) ==
  name \in {s_LICENSE, s_LICENSE_md, s_LICENSE_rst, s_COPYING, s_COPYING_txt}

\* The files the two nested loops over os.walk(top) can reach first with
\* IsLicenseFile true.  os.walk is top-down: the non-directory entries of
\* curdir come before anything below it, then each subdirectory with all its
\* subtree.  The order of `files` and of the subdirectories is the order the
\* directory is listed in, which nothing fixes, so every license file of the
\* first directory that has one, in any visiting order, is a possible hit.
RECURSIVE WalkHits(_, _)
WalkHits(base, rel) ==
  LET node  == Lookup(fs[base], rel)
      names == IF node.kind = "dir" THEN DOMAIN node.entries ELSE {}
      files == {n \in names : node.entries[n].kind = "file"}
      dirs  == {n \in names : node.entries[n].kind = "dir"}
      hits  == {n \in files : IsLicenseFile(n)}
  IN  IF hits # {} THEN {Path(base, Append(rel, n)) : n \in hits}
      ELSE UNION {WalkHits(base, Append(rel, n)) : n \in dirs}

\* FindLicense(third_party_dir, library_name): the set of its possible outcomes.
\* The mutants: the override only when the walk finds nothing, and the walk
\* when the override's file is missing.
FindLicense_walk_first(third_party_dir, library_name) ==
  LET hits == WalkHits(third_party_dir, <<library_name>>)
  IN  IF hits # {}
      THEN {[ReadFile(h) EXCEPT !.walked = TRUE] : h \in hits}
      ELSE IF library_name \in DOMAIN SPECIAL_CASES
      THEN {ReadFile(Path(third_party_dir, <<SPECIAL_CASES[library_name].path>>))}
      ELSE {Outcome("none", <<>>, "", NoPath, TRUE)}

FindLicense_fallback(third_party_dir, library_name) ==
  LET hits == WalkHits(third_party_dir, <<library_name>>)
      over == Path(third_party_dir, <<SPECIAL_CASES[library_name].path>>)
  IN  IF library_name \in DOMAIN SPECIAL_CASES /\ exists(over)
      THEN {ReadFile(over)}
      ELSE IF hits = {}
      THEN {Outcome("none", <<>>, "", NoPath, TRUE)}
      ELSE {[ReadFile(h) EXCEPT !.walked = TRUE] : h \in hits}

FindLicense(third_party_dir, library_name) ==
  IF library_name \in DOMAIN SPECIAL_CASES
  THEN {ReadFile(Path(third_party_dir, <<SPECIAL_CASES[library_name].path>>))}
  ELSE LET hits == WalkHits(third_party_dir, <<library_name>>)
       IN  IF hits = {}
           THEN {Outcome("none", <<>>, "", NoPath, TRUE)}
           ELSE {[ReadFile(h) EXCEPT !.walked = TRUE] : h \in hits}

\* AddLicenseFile(license_data, name, contents).  (The mutant separates
\* without looking at license_data.)
AddLicenseFile_always_sep(license_data, name, contents) ==
  license_data \o <<NL, NL>> \o name \o <<NL>>
    \o repeat("=", Len(name)) \o <<NL>> \o contents

AddLicenseFile(license_data, name, contents) ==
  LET d1 == IF license_data # <<>> THEN license_data \o <<NL, NL>> ELSE license_data
      d2 == d1 \o name \o <<NL>>
      d3 == d2 \o repeat("=", Len(name)) \o <<NL>>
  IN  d3 \o contents

str_gt(a, b) == str_lt(b, a)

\* sorted(os.listdir(dir)): the names of a directory in ascending code-point
\* order; the name at index i has i - 1 names before it.  (The mutants:
\* descending, and ascending with the case folded.)
sorted_reverse(S) ==
  [i \in 1..Cardinality(S) |->
     CHOOSE x \in S : Cardinality({y \in S : str_gt(y, x)}) = i - 1]

sorted_key_lower(S) ==
  [i \in 1..Cardinality(S) |->
     CHOOSE x \in S : Cardinality({y \in S : str_lt_lower(y, x)}) = i - 1]

sorted(S) ==
  [i \in 1..Cardinality(S) |->
     CHOOSE x \in S : Cardinality({y \in S : str_lt(y, x)}) = i - 1]

\* os.listdir(path) of a directory, as the set of its names.
listdir(p) == DOMAIN NodeAt(p).entries

\* Python's `not x` for what FindLicense returns: None and '' are both false.
falsy(o) == o.kind = "none" \/ (o.kind = "value" /\ o.text = <<>>)

\* The three tests of main's loop that `continue`.  (The mutants leave out
\* the gclient test, and the PRUNE_DIRS test.)
skips_no_tmp(third_party_dir, d) ==
  \/ ~isdir(Path(third_party_dir, <<d>>))
  \/ d \in PRUNE_DIRS

skips_no_prune(third_party_dir, d) ==
  \/ ~isdir(Path(third_party_dir, <<d>>))
  \/ startswith(d, s_gclient)

skips(third_party_dir, d) ==
  \/ ~isdir(Path(third_party_dir, <<d>>))
  \/ startswith(d, s_gclient)
  \/ d \in PRUNE_DIRS

-----------------------------------------------------------------------------
(* The file systems main() is run on                                       *)

s_absl        == <<"a","b","s","l">>
s_Json        == <<"J","s","o","n">>
s_gclient_tmp == <<"_","g","c","l","i","e","n","t","_","a","b","s","l">>
s_README      == <<"R","E","A","D","M","E">>
s_LICENSE_txt == <<"L","I","C","E","N","S","E",".","t","x","t">>
s_src         == <<"s","r","c">>
s_docs        == <<"d","o","c","s">>

t_MIT  == <<"M","I","T">>
t_GPL  == <<"G","P","L",NL>>
t_BSD  == <<"B","S","D",NL>>
t_BSD_crlf == <<"B","S","D",CR,NL,"b","y",CR,"u","s",CR,NL>>
t_BSD_read == <<"B","S","D",NL,"b","y",NL,"u","s",NL>>
t_lss_crlf == <<"l","s","s",CR,NL,"b","y",CR,"u","s">>
t_Goma == <<"G","o","m","a",NL>>
t_old  == <<"o","l","d">>
t_doc  == <<"d","o","c">>

\* The directory whose entries are the nodes of f that are not absent.
MkDir(f) == Dir([n \in {m \in DOMAIN f : f[m].kind # "absent"} |-> f[n]])

\* What third_party/absl can be: missing, a plain file, or a directory with
\* no license file, with one, with an empty one, with two in one directory,
\* with one below, with two below in different directories, with one on top
\* and one below, with a directory named LICENSE and a LICENSE.txt, with an
\* empty and a non-empty one.
AbslNodes ==
  { Absent,
    File(t_doc),
    MkDir(s_README :> File(t_doc)),
    MkDir(s_LICENSE :> File(t_MIT)),
    MkDir(s_LICENSE :> File(<<>>)),
    MkDir((s_LICENSE :> File(t_MIT)) @@ (s_COPYING :> File(t_GPL))),
    MkDir((s_README :> File(t_doc))
            @@ (s_src :> MkDir(s_COPYING_txt :> File(t_GPL)))),
    MkDir((s_src :> MkDir(s_LICENSE_md :> File(t_MIT)))
            @@ (s_docs :> MkDir(s_COPYING :> File(t_GPL)))),
    MkDir((s_LICENSE_rst :> File(t_MIT))
            @@ (s_src :> MkDir(s_COPYING :> File(t_GPL)))),
    MkDir((s_LICENSE :> MkDir(s_README :> Absent))
            @@ (s_LICENSE_txt :> File(t_MIT))),
    MkDir((s_LICENSE :> File(<<>>)) @@ (s_COPYING :> File(t_GPL))) }

JsonNodes ==
  { Absent,
    MkDir(s_README :> File(t_doc)),
    MkDir(s_LICENSE :> File(t_BSD_crlf)),
    MkDir(s_COPYING :> File(<<>>)) }

LssNodes ==
  { Absent,
    MkDir(s_README :> Absent),
    MkDir(s_LICENSE :> File(t_MIT)) }

LicenseLssNodes ==
  { Absent, File(t_BSD), File(t_lss_crlf), File(<<>>), MkDir(s_README :> Absent) }

NinjaNodes ==
  { Absent,
    MkDir(s_README :> File(t_doc)),
    MkDir(s_COPYING :> File(t_GPL)) }

GclientNodes == { Absent, MkDir(s_README :> Absent) }

\* What args.third_party_dir can be: missing, a plain file, or a directory.
ThirdPartyNodes ==
  { Absent, File(t_doc) } \cup
  { MkDir((s_absl :> a) @@ (s_Json :> j) @@ (s_lss :> l)
            @@ (s_LICENSE_lss :> o) @@ (s_ninja :> n) @@ (s_gclient_tmp :> g)) :
      a \in AbslNodes, j \in JsonNodes, l \in LssNodes,
      o \in LicenseLssNodes, n \in NinjaNodes, g \in GclientNodes }

\* What args.goma_license can be: missing, a file, or a directory.
GomaLicenseNodes == { Absent, File(t_Goma), MkDir(s_README :> Absent) }

\* What args.output_file can be before the first run: missing, a file, or a
\* directory.
OutputNodes == { Absent, File(t_old), MkDir(s_README :> Absent) }

-----------------------------------------------------------------------------
(* main()                                                                  *)

ThirdParty  == "third_party_dir"
GomaLicense == "goma_license"
OutputFile  == "output_file"

NoCall == [dep |-> <<>>, outcome |-> Outcome("", <<>>, "", NoPath, FALSE)]

Init ==
  /\ fs \in [goma_license : GomaLicenseNodes, third_party_dir : ThirdPartyNodes]
  /\ output_file \in OutputNodes
  /\ run = 1
  /\ pc = "start"
  /\ result = <<>>
  /\ todo = <<>>
  /\ err = NoErr
  /\ reads = <<>>
  /\ resolved = <<>>
  /\ added = <<>>
  /\ last = NoCall
  /\ out_before = output_file
  /\ history = <<>>

\* Lines 84-87: result = '', and the Goma client block when the file exists.
ProcessGomaLicense ==
  /\ pc = "start"
  /\ LET p == Path(GomaLicense, <<>>)
         o == ReadFile(p)
     IN  IF exists(p)
         THEN IF o.kind = "raise"
              THEN /\ pc' = "failed"
                   /\ err' = [exc |-> o.exc, dep |-> <<>>, path |-> p]
                   /\ UNCHANGED <<result, reads, added>>
              ELSE /\ pc' = "scan"
                   /\ result' = AddLicenseFile(<<>>, s_Goma_Client, o.text)
                   /\ reads' = Append(reads, p)
                   /\ added' = Append(added, [name |-> s_Goma_Client, contents |-> o.text])
                   /\ UNCHANGED err
         ELSE /\ pc' = "scan"
              /\ result' = <<>>
              /\ UNCHANGED <<err, reads, added>>
  /\ UNCHANGED <<fs, output_file, run, todo, resolved, last, out_before, history>>

\* Line 90: sorted(os.listdir(args.third_party_dir)); os.listdir raises on a
\* missing path and on a path that is no directory.
ListThirdParty ==
  /\ pc = "scan"
  /\ LET p == Path(ThirdParty, <<>>)
     IN  IF isdir(p)
         THEN /\ todo' = sorted(listdir(p))
              /\ pc' = "loop"
              /\ UNCHANGED err
         ELSE /\ pc' = "failed"
              /\ err' = [exc |-> IF NodeAt(p).kind = "absent"
                                 THEN "FileNotFoundError"
                                 ELSE "NotADirectoryError",
                         dep |-> <<>>, path |-> p]
              /\ UNCHANGED todo
  /\ UNCHANGED <<fs, output_file, run, result, reads, resolved, added, last,
                 out_before, history>>

\* Lines 90-101: one iteration of the for loop, on d = the next entry.
ProcessEntry ==
  /\ pc = "loop"
  /\ todo # <<>>
  /\ LET d == Head(todo)
     IN  IF skips(ThirdParty, d)
         THEN /\ todo' = Tail(todo)
              /\ UNCHANGED <<pc, result, err, reads, resolved, added, last>>
         ELSE \E o \in FindLicense(ThirdParty, d) :
                /\ last' = [dep |-> d, outcome |-> o]
                /\ resolved' = Append(resolved, d)
                /\ reads' = IF o.kind = "value" THEN Append(reads, o.path) ELSE reads
                /\ IF o.kind = "raise"
                   THEN /\ pc' = "failed"
                        /\ err' = [exc |-> o.exc, dep |-> <<>>, path |-> o.path]
                        /\ UNCHANGED <<result, added, todo>>
                   ELSE IF falsy(o)
                   THEN /\ pc' = "failed"
                        /\ err' = [exc |-> "Exception", dep |-> d, path |-> NoPath]
                        /\ UNCHANGED <<result, added, todo>>
                   ELSE /\ result' = AddLicenseFile(result, d, o.text)
                        /\ added' = Append(added, [name |-> d, contents |-> o.text])
                        /\ todo' = Tail(todo)
                        /\ UNCHANGED <<pc, err>>
  /\ UNCHANGED <<fs, output_file, run, out_before, history>>

\* Lines 103-104: after the loop, open(args.output_file, 'w') and write.
\* open raises on a directory and leaves it as it is; otherwise the file is
\* created or truncated and holds result ('\n' is written as os.linesep,
\* which is '\n' on POSIX).
WriteOutput ==
  /\ pc = "loop"
  /\ todo = <<>>
  /\ IF output_file.kind = "dir"
     THEN /\ pc' = "failed"
          /\ err' = [exc |-> "IsADirectoryError", dep |-> <<>>,
                     path |-> Path(OutputFile, <<>>)]
          /\ UNCHANGED output_file
     ELSE /\ output_file' = File(result)
          /\ pc' = "done"
          /\ UNCHANGED err
  /\ UNCHANGED <<fs, run, result, todo, reads, resolved, added, last,
                 out_before, history>>

\* main() is run again on the same arguments and the same input files.
RunAgain ==
  /\ pc \in {"done", "failed"}
  /\ run < MaxRuns
  /\ history' = Append(history, [status |-> pc, output |-> output_file])
  /\ run' = run + 1
  /\ pc' = "start"
  /\ result' = <<>>
  /\ todo' = <<>>
  /\ err' = NoErr
  /\ reads' = <<>>
  /\ resolved' = <<>>
  /\ added' = <<>>
  /\ last' = NoCall
  /\ out_before' = output_file
  /\ UNCHANGED <<fs, output_file>>

Next ==
  \/ ProcessGomaLicense
  \/ ListThirdParty
  \/ ProcessEntry
  \/ WriteOutput
  \/ RunAgain

Spec == Init /\ [][Next]_vars

\* The runs whose Goma client license path is missing or a regular file.
InitGomaLicenseFile == Init /\ fs.goma_license.kind # "dir"
SpecGomaLicenseFile == InitGomaLicenseFile /\ [][Next]_vars

-----------------------------------------------------------------------------
(* The vocabulary of the properties, defined on the file system alone      *)

Ended == pc \in {"done", "failed"}

RootEntries ==
  IF fs.third_party_dir.kind = "dir" THEN DOMAIN fs.third_party_dir.entries ELSE {}

EntryNode(n) == fs.third_party_dir.entries[n]

\* Not a directory, in the prune set, or named like a gclient temporary.
Excluded(n) ==
  \/ EntryNode(n).kind # "dir"
  \/ n \in PRUNE_DIRS
  \/ startswith(n, s_gclient)

\* The dependencies: the entries of the third-party root that are not excluded.
Scanned == {n \in RootEntries : ~Excluded(n)}

\* Some regular file with a recognized license filename is in the subtree.
RECURSIVE HasLicenseFile(_)
HasLicenseFile(node) ==
  /\ node.kind = "dir"
  /\ \E n \in DOMAIN node.entries :
       \/ node.entries[n].kind = "file" /\ IsLicenseFile(n)
       \/ HasLicenseFile(node.entries[n])

OverridePath(d) == Path(ThirdParty, <<SPECIAL_CASES[d].path>>)

\* The override's file is missing, or there is no override and no license file.
Unresolvable(d) ==
  IF d \in DOMAIN SPECIAL_CASES
  THEN NodeAt(OverridePath(d)).kind # "file"
  ELSE ~HasLicenseFile(EntryNode(d))

\* The error names the dependency, or the path of its override.
ErrNames(d) ==
  \/ err.dep = d
  \/ d \in DOMAIN SPECIAL_CASES /\ err.path = OverridePath(d)

\* The error raised by line 100 for d.
NotFoundError(d) == err.exc = "Exception" /\ err.dep = d

Range(seq) == {seq[i] : i \in 1..Len(seq)}
Titles == [i \in 1..Len(added) |-> added[i].name]

\* A path below the entry n of the third-party root.
Below(p, n) == p.base = ThirdParty /\ Len(p.rel) >= 2 /\ Head(p.rel) = n

\* A block as text: the title line, the underline, lines blank lines, the body.
RenderBlock(b, blank) ==
  b.name \o <<NL>> \o repeat("=", Len(b.name)) \o <<NL>> \o blank \o b.contents

\* The blocks as text, "\n\n" between two of them.
RECURSIVE JoinBlocks(_, _)
JoinBlocks(blocks, blank) ==
  IF blocks = <<>> THEN <<>>
  ELSE IF Len(blocks) = 1 THEN RenderBlock(blocks[1], blank)
  ELSE RenderBlock(Head(blocks), blank) \o <<NL, NL>> \o JoinBlocks(Tail(blocks), blank)

\* How the runs that have ended so far ended.
Outcomes ==
  history \o (IF Ended THEN <<[status |-> pc, output |-> output_file]>> ELSE <<>>)

-----------------------------------------------------------------------------
(* The properties                                                          *)

\* C1: when some scanned dependency is unresolvable, a run that has ended has
\* failed, has left the output file as it was, and its error names an
\* unresolvable scanned dependency.
C1_FailureContainment ==
  (Ended /\ \E d \in Scanned : Unresolvable(d)) =>
    /\ pc = "failed"
    /\ output_file = out_before
    /\ \E d \in Scanned : Unresolvable(d) /\ ErrNames(d)

\* C2: in a successful run the written document is made of the blocks added,
\* the first is titled 'Goma Client' exactly when the Goma license exists, and
\* the titles after it are the scanned dependencies, one block each, in
\* strictly ascending order.
C2_BlockOrder ==
  pc = "done" =>
    LET k == IF exists(Path(GomaLicense, <<>>)) THEN 1 ELSE 0
    IN  /\ output_file = File(JoinBlocks(added, <<>>))
        /\ Len(added) = k + Cardinality(Scanned)
        /\ k = 1 => Titles[1] = s_Goma_Client
        /\ {Titles[i] : i \in (k + 1)..Len(added)} = Scanned
        /\ \A i, j \in (k + 1)..Len(added) : i < j => str_lt(Titles[i], Titles[j])

C2_Witness ==
  /\ pc = "done"
  /\ fs.goma_license.kind = "file"
  /\ Cardinality(Scanned) = 3
  /\ Len(added) = 4
  /\ added[2] = [name |-> s_Json, contents |-> t_BSD_read]

\* C3: an entry of the third-party root that is not a directory, is in the
\* prune set or has the gclient prefix is never passed to FindLicense, gets
\* no block, has nothing below it read, and is never named by the error.
C3_ScannerExclusion ==
  \A n \in RootEntries :
    Excluded(n) =>
      /\ n \notin Range(resolved)
      /\ n \notin Range(Titles)
      /\ last.dep # n
      /\ \A i \in 1..Len(reads) : ~Below(reads[i], n)
      /\ err.dep # n
      /\ ~Below(err.path, n)

C3_Witness ==
  /\ pc = "done"
  /\ s_ninja \in RootEntries /\ ~HasLicenseFile(EntryNode(s_ninja))
  /\ s_gclient_tmp \in RootEntries
  /\ s_absl \in RootEntries /\ EntryNode(s_absl).kind = "file"
  /\ Len(added) >= 2

\* C4: for a dependency of SPECIAL_CASES, FindLicense never walks the
\* dependency's own directory and reads nothing below it, and when the
\* override file is there it returns the contents of that file, whatever
\* the dependency's own directory holds.
C4_OverridePrecedence ==
  last.dep \in DOMAIN SPECIAL_CASES =>
    /\ ~last.outcome.walked
    /\ \A i \in 1..Len(reads) : ~Below(reads[i], last.dep)
    /\ NodeAt(OverridePath(last.dep)).kind = "file" =>
         /\ last.outcome.kind = "value"
         /\ last.outcome.text = NodeAt(OverridePath(last.dep)).data
         /\ last.outcome.path = OverridePath(last.dep)

\* C5 as claimed: the written document is the blocks added, each rendered as
\* title, underline, a blank line and the body, with "\n\n" between blocks.
C5_BlockRendering ==
  pc = "done" => output_file = File(JoinBlocks(added, <<NL>>))

\* C5 as amended: the same with no blank line between underline and body;
\* n blocks have n - 1 separators, none leading and none trailing.
C5_BlockRenderingAmended ==
  /\ result = JoinBlocks(added, <<>>)
  /\ pc = "done" => output_file = File(JoinBlocks(added, <<>>))

C5_Witness ==
  /\ pc = "done"
  /\ Len(added) >= 3
  /\ output_file.data # <<>>

\* C6: any two runs that wrote the document wrote the same document.
C6_Idempotence ==
  \A i, j \in 1..Len(Outcomes) :
    (Outcomes[i].status = "done" /\ Outcomes[j].status = "done")
      => Outcomes[i].output = Outcomes[j].output

\* C7: for the dependency the loop has just handled, the run has failed with
\* 'license file not found' exactly when it has no override and no license
\* file in its subtree.
C7_LicenseNotFound ==
  last.dep # <<>> =>
    (NotFoundError(last.dep) <=>
       (last.dep \notin DOMAIN SPECIAL_CASES /\ ~HasLicenseFile(EntryNode(last.dep))))

\* C8: when FindLicense has returned None for a dependency, the run has
\* failed with the error naming it, it is the smallest unresolvable scanned
\* dependency, nothing after it was resolved or added, nothing was written.
C8_AbortOnFirstFailure ==
  last.outcome.kind = "none" =>
    /\ pc = "failed"
    /\ NotFoundError(last.dep)
    /\ last.dep \in Scanned /\ Unresolvable(last.dep)
    /\ \A e \in Scanned : Unresolvable(e) => (e = last.dep \/ str_lt(last.dep, e))
    /\ \A e \in Scanned :
         str_lt(last.dep, e) => (e \notin Range(resolved) /\ e \notin Range(Titles))
    /\ resolved[Len(resolved)] = last.dep
    /\ output_file = out_before

C8_Witness ==
  /\ last.outcome.kind = "none"
  /\ pc = "failed"
  /\ added # <<>>
  /\ \E e \in Scanned : str_lt(last.dep, e) /\ Unresolvable(e)

\* C9 as claimed: when the third-party root is no directory or the Goma
\* license path is no regular file, a run that has ended has failed, and
\* before any file was read or any block added.
C9_RootNotFound ==
  (Ended /\ (fs.third_party_dir.kind # "dir" \/ fs.goma_license.kind # "file")) =>
    /\ pc = "failed"
    /\ reads = <<>>
    /\ added = <<>>

\* C9 as amended: a Goma license path that is a directory fails the run
\* before anything is read or added; a third-party root that is missing or
\* no directory fails it before any dependency is resolved or added, the
\* Goma client block having been added already when its file exists; nothing
\* is written in either case; a missing Goma license path is no error.
C9_RootNotFoundAmended ==
  /\ (Ended /\ fs.goma_license.kind = "dir") =>
       /\ pc = "failed"
       /\ err = [exc |-> "IsADirectoryError", dep |-> <<>>,
                 path |-> Path(GomaLicense, <<>>)]
       /\ reads = <<>> /\ added = <<>> /\ resolved = <<>>
       /\ output_file = out_before
  /\ (Ended /\ fs.goma_license.kind # "dir" /\ fs.third_party_dir.kind # "dir") =>
       /\ pc = "failed"
       /\ err = [exc |-> IF fs.third_party_dir.kind = "absent"
                         THEN "FileNotFoundError" ELSE "NotADirectoryError",
                 dep |-> <<>>, path |-> Path(ThirdParty, <<>>)]
       /\ resolved = <<>>
       /\ Len(added) = (IF fs.goma_license.kind = "file" THEN 1 ELSE 0)
       /\ Len(reads) = Len(added)
       /\ output_file = out_before
  /\ fs.goma_license.kind = "absent" => err.path # Path(GomaLicense, <<>>)

C9_Witness ==
  /\ pc = "failed"
  /\ fs.third_party_dir.kind = "absent"
  /\ fs.goma_license.kind = "file"
  /\ Titles = <<s_Goma_Client>>
  /\ reads = <<Path(GomaLicense, <<>>)>>

\* C10: for a dependency of SPECIAL_CASES whose override file is missing,
\* FindLicense raises, the run fails on that path and writes nothing, the
\* dependency's directory is not walked and 'not found' is not reported.
C10_MissingOverride ==
  (last.dep \in DOMAIN SPECIAL_CASES /\ NodeAt(OverridePath(last.dep)).kind = "absent") =>
    /\ last.outcome.kind = "raise"
    /\ ~last.outcome.walked
    /\ pc = "failed"
    /\ err = [exc |-> "FileNotFoundError", dep |-> <<>>,
              path |-> OverridePath(last.dep)]
    /\ ~NotFoundError(last.dep)
    /\ \A i \in 1..Len(reads) : ~Below(reads[i], last.dep)
    /\ last.dep \notin Range(Titles)
    /\ output_file = out_before

C10_Witness ==
  /\ last.dep = s_lss
  /\ NodeAt(OverridePath(s_lss)).kind = "absent"
  /\ HasLicenseFile(EntryNode(s_lss))
  /\ pc = "failed"
  /\ added # <<>>

====
